---------------------------- MODULE Spec2Model ----------------------------
(***************************************************************************)
(* A model of logsuck's event store (internal/events, SQLite repository),  *)
(* of the search engine's streaming refinement and of the batched          *)
(* publisher.                                                              *)
(*                                                                         *)
(* The store is the pair of tables created by SqliteRepository: Events     *)
(* (id INTEGER PRIMARY KEY, source, timestamp, offset, UNIQUE(source,      *)
(* timestamp, offset)) and the FTS4 table EventRaws (rowid, raw, source).  *)
(* A transaction works on a private copy of the tables that replaces the   *)
(* committed tables at COMMIT and is thrown away at ROLLBACK; readers see  *)
(* committed tables only.                                                  *)
(***************************************************************************)
EXTENDS Integers, Sequences, FiniteSets, TLC

(***************************************************************************)
(* Bounds of the model.                                                    *)
(***************************************************************************)
\* the most rows the Events table is let to grow to
MaxStored == 4
\* the longest batch handed to one AddBatch call
MaxBatch == 2
\* filterStreamPageSize, the LIMIT of a page query; 1000 in the source, scaled down
filterStreamPageSize == 1
\* the size of the accumulation buffer that triggers a flush; 1000 in the source,
\* scaled down
FlushSize == 2
\* the most PublishEvent calls of a behaviour
MaxPublish == 3
\* the longest list of identities GetByIds is called with
MaxIds == 2

(***************************************************************************)
(* The inputs: events as the callers of AddBatch build them.  Host is left *)
(* out: no statement of the repository reads it.                           *)
(***************************************************************************)
Sources == {"a", "b"}
Timestamps == {1, 2}
Offsets == {0}
\* the raw text of an event, one token long
Raws == {"x", "y"}

\* type Event: the raw text of the events of the model is fixed by their source and
\* timestamp, which keeps the number of distinct events at four
EventUniverse ==
    { [raw |-> IF s = "b" /\ t = 2 THEN "y" ELSE "x", source |-> s, offset |-> o,
       timestamp |-> t] :
        s \in Sources, t \in Timestamps, o \in Offsets }

\* every sequence over S of length at most n
SeqsUpTo(S, n) == UNION { [1..k -> S] : k \in 0..n }

Batches == SeqsUpTo(EventUniverse, MaxBatch)

(***************************************************************************)
(* The state.                                                              *)
(***************************************************************************)
VARIABLES
    Events,      \* the committed Events table: a set of rows [id, source, timestamp, offset]
    EventRaws,   \* the committed EventRaws table: a set of rows [rowid, raw, source]
    cleanAdded,  \* some AddBatch call has committed a non-empty batch of novel events only
    call,        \* the direct AddBatch call that has just returned: its arguments, what it
                 \* returned and logged, and the tables before it
    fnCall       \* the last call of a function that changes no state (shouldIncludeEvent,
                 \* GetByIds, the building of matchString, a search run twice): its
                 \* arguments and what it returned
VARIABLES
    mode,        \* "store": FilterStream called by itself; "search": by FilterEventsStream
    srch,        \* the Search of the call (the arguments of FilterStream are its Sources,
                 \* NotSources, Fragments, StartTime and EndTime)
    fsPc,        \* where the goroutine of FilterStream stands
    maxID,       \* FilterStream: var maxID
    offset,      \* FilterStream: offset
    evts,        \* FilterStream: the page scanned, evts
    eventsInPage, \* FilterStream: eventsInPage
    fesPc,       \* where the goroutine of FilterEventsStream stands
    retEvts,     \* FilterEventsStream: the refined page, retEvts
    abandoned,   \* the caller has stopped receiving from the channel it was given
    sent,        \* the pages received from the channel of FilterStream, in order
    received,    \* the pages received from the channel of FilterEventsStream, in order
    snapshot,    \* the ids of the rows of Events when SELECT MAX(id) ran
    readErr      \* the last error FilterStream logged, "none" if it logged none
VARIABLES
    pubPc,       \* PublishEvent of each caller: "idle", or "sending" at ep.adder <- processed
    processed,   \* PublishEvent of each caller: the event it sends, tagged with its call
    published,   \* the number of PublishEvent calls made
    returned,    \* the tags of the PublishEvent calls that have returned
    accumulated, \* the flush task: accumulated, each event tagged with its call
    timerFired,  \* the flush task: the channel timeout holds the tick of its timer
    flushPc,     \* the flush task: "select", or at its AddBatch call, "size" or "timer"
    flushed      \* the AddBatch calls of the flush task, in order: the tags of the batch,
                 \* the trigger, whether AddBatch returned an error and whether it was logged

storeVars == <<Events, EventRaws, cleanAdded>>
fsVars == <<fsPc, maxID, offset, evts, eventsInPage, snapshot, readErr, sent>>
fesVars == <<fesPc, retEvts, received>>
streamVars == <<mode, srch, abandoned, fsVars, fesVars>>
pubVars == <<pubPc, processed, published, returned, accumulated, timerFired, flushPc, flushed>>

(***************************************************************************)
(* SQLite: the tables' rules.                                              *)
(***************************************************************************)
\* the largest of a non-empty set of integers
SetMax(S) == CHOOSE m \in S : \A x \in S : x <= m

\* an INTEGER PRIMARY KEY left unset gets one more than the largest id of the table
NextRowid(tab) == IF tab = {} THEN 1 ELSE SetMax({ r.id : r \in tab }) + 1

\* a claim-check variant of UniqueConstraintFailed: the table created without its UNIQUE clause
NoUniqueConstraint(tab, evt) == FALSE

\* UNIQUE(source, timestamp, offset): the INSERT of evt fails with
\* expectedConstraintViolationForDuplicates
UniqueConstraintFailed(tab, evt) ==
    \E r \in tab :
        /\ r.source = evt.source
        /\ r.timestamp = evt.timestamp
        /\ r.offset = evt.offset

(***************************************************************************)
(* AddBatch.  A fault is a failure of the database that is no uniqueness   *)
(* violation: of the INSERT into Events of the at-th event ("insert"), of  *)
(* LastInsertId after it ("lastid"), of the INSERT into EventRaws          *)
(* ("raw"), or of COMMIT ("commit").                                       *)
(***************************************************************************)
FaultKinds == {"none", "insert", "lastid", "raw", "commit"}

Faults(batch) ==
    {[kind |-> "none", at |-> 0], [kind |-> "commit", at |-> 0]}
        \cup { [kind |-> k, at |-> i] : k \in {"insert", "lastid", "raw"}, i \in 1..Len(batch) }

\* a variant of CountDuplicate for the claims' checks: the duplicate is skipped uncounted
CountDuplicateNever(dups, s) == dups

\* numberOfDuplicates[evt.Source]++
CountDuplicate(dups, s) == [dups EXCEPT ![s] = @ + 1]

\* tx.Rollback() and the return (nil, error): the tables are as before the call, the
\* duplicates are not logged
RolledBack(pre, kind) ==
    [Events |-> pre.Events, EventRaws |-> pre.EventRaws, ret |-> <<>>, err |-> TRUE,
     dups |-> [s \in Sources |-> 0], logged |-> FALSE, failed |-> kind]

\* err = tx.Commit(), the log of the duplicates and the return (ret, nil) whatever err
\* is ("TODO: Hmm?").  A COMMIT that fails commits nothing: the tables stay as they were.
Committed(pre, tx, ret, dups, fault) ==
    [Events |-> IF fault.kind = "commit" THEN pre.Events ELSE tx.Events,
     EventRaws |-> IF fault.kind = "commit" THEN pre.EventRaws ELSE tx.EventRaws,
     ret |-> ret, err |-> FALSE, dups |-> dups, logged |-> TRUE,
     failed |-> IF fault.kind = "commit" THEN "commit" ELSE "none"]

\* the loop of AddBatch from its i-th event on, inside the transaction tx
RECURSIVE AddBatchLoop(_, _, _, _, _, _, _)
AddBatchLoop(pre, tx, events, i, ret, dups, fault) ==
    IF i > Len(events) THEN Committed(pre, tx, ret, dups, fault)
    ELSE LET evt == events[i]
             id == NextRowid(tx.Events)
         IN  IF fault = [kind |-> "insert", at |-> i] THEN RolledBack(pre, "insert")
             ELSE IF UniqueConstraintFailed(tx.Events, evt)
             THEN AddBatchLoop(pre, tx, events, i + 1, ret,
                               CountDuplicate(dups, evt.source), fault)
             ELSE IF fault = [kind |-> "lastid", at |-> i] THEN RolledBack(pre, "lastid")
             ELSE IF fault = [kind |-> "raw", at |-> i] THEN RolledBack(pre, "raw")
             ELSE AddBatchLoop(pre,
                      [Events |-> tx.Events \cup
                            {[id |-> id, source |-> evt.source,
                              timestamp |-> evt.timestamp, offset |-> evt.offset]},
                       EventRaws |-> tx.EventRaws \cup
                            {[rowid |-> id, raw |-> evt.raw, source |-> evt.source]}],
                      events, i + 1, [ret EXCEPT ![i] = id], dups, fault)

\* AddBatch(events) on the committed tables pre, under the fault: the tables it leaves,
\* what it returns (ret, err), the duplicates it counted per source and whether it logged
\* them, and the fault that took place ("none" when the fault's statement was never run)
AddBatch(pre, events, fault) ==
    AddBatchLoop(pre, pre, events, 1, [i \in 1..Len(events) |-> 0],
                 [s \in Sources |-> 0], fault)

(***************************************************************************)
(* FilterStream: the statements it runs.                                   *)
(***************************************************************************)
\* every order in which a range loop may visit the keys of the Go map S
Orders(S) == { f \in [1..Cardinality(S) -> S] : \A x \in S : \E i \in DOMAIN f : f[i] = x }

\* the tokens of a match string: a term "source:s " or "raw:frag ", a parenthesis,
\* or one of the operators
Term(col, word) == [col |-> col, word |-> word]
LParen == [col |-> "", word |-> "("]
RParen == [col |-> "", word |-> ")"]
OpAnd == [col |-> "", word |-> "AND"]
OpNot == [col |-> "", word |-> "NOT"]

\* the terms a loop over the keys ks appends, each after the tokens of prefix
RECURSIVE TermsOf(_, _, _)
TermsOf(prefix, col, ks) ==
    IF ks = <<>> THEN <<>>
    ELSE prefix \o <<Term(col, Head(ks))>> \o TermsOf(prefix, col, Tail(ks))

\* matchString as FilterStream concatenates it, token by token, its maps visited in
\* the orders srcs, nots and frags
matchString(srcs, nots, frags) ==
    (IF Len(srcs) > 0 THEN <<LParen>> ELSE <<>>)
        \o TermsOf(<<>>, "source", srcs)
        \o (IF Len(srcs) > 0 /\ Len(nots) = 0 THEN <<RParen>> ELSE <<>>)
        \o TermsOf(<<OpNot>>, "source", nots)
        \o (IF Len(nots) > 0 THEN <<RParen>> ELSE <<>>)
        \o (IF Len(srcs) > 0 \/ Len(nots) > 0 THEN <<OpAnd>> ELSE <<>>)
        \o (IF Len(frags) > 0 THEN <<LParen>> ELSE <<>>)
        \o TermsOf(<<>>, "raw", frags)
        \o (IF Len(frags) > 0 THEN <<RParen>> ELSE <<>>)

IsTerm(tok) == tok.col # ""

\* the nesting depth after the first n tokens of m
RECURSIVE Depth(_, _)
Depth(m, n) ==
    IF n = 0 THEN 0
    ELSE Depth(m, n - 1) + (IF m[n] = LParen THEN 1 ELSE IF m[n] = RParen THEN 0 - 1 ELSE 0)

\* SQLite FTS4, enhanced query syntax (the build go-sqlite3 makes): the expression m
\* parses.  Its parentheses balance, no group is empty, and each of the binary
\* operators AND and NOT stands between two operands.
FtsWellFormed(m) ==
    /\ \A n \in 1..Len(m) : Depth(m, n) >= 0
    /\ Depth(m, Len(m)) = 0
    /\ \A n \in 1..Len(m) :
        /\ m[n] = LParen => (n < Len(m) /\ m[n + 1] # RParen)
        /\ m[n] \in {OpAnd, OpNot} =>
            /\ n > 1 /\ (IsTerm(m[n - 1]) \/ m[n - 1] = RParen)
            /\ n < Len(m) /\ (IsTerm(m[n + 1]) \/ m[n + 1] = LParen)

\* a term matches a row of EventRaws: the column holds the word
TermMatches(tok, r) ==
    IF tok.col = "source" THEN r.source = tok.word ELSE r.raw = tok.word

\* EventRaws MATCH m for a well-formed m built of terms, AND, NOT and parentheses around
\* runs of terms: terms that follow one another are ANDed, a term after NOT must not
\* match, and the empty expression matches no row
FtsMatches(m, r) ==
    /\ m # <<>>
    /\ \A n \in 1..Len(m) :
        IsTerm(m[n]) =>
            (TermMatches(m[n], r) <=> ~(n > 1 /\ m[n - 1] = OpNot))

\* the rows of Events INNER JOIN EventRaws ON rowid = id, as EventWithId
Joined(events, raws) ==
    { [Id |-> e.id, Source |-> e.source, Timestamp |-> e.timestamp, Raw |-> r.raw] :
        <<e, r>> \in { p \in events \X raws : p[2].rowid = p[1].id } }

\* a variant of Before for the claims' checks: ORDER BY e.id DESC alone
BeforeById(a, b) == a.Id > b.Id

\* ORDER BY e.timestamp DESC, e.id DESC: a comes before b
Before(a, b) ==
    \/ a.Timestamp > b.Timestamp
    \/ a.Timestamp = b.Timestamp /\ a.Id > b.Id

\* the rows of S in the order of the ORDER BY clause
RECURSIVE Ordered(_)
Ordered(S) ==
    IF S = {} THEN <<>>
    ELSE LET first == CHOOSE a \in S : \A b \in S \ {a} : Before(a, b)
         IN  <<first>> \o Ordered(S \ {first})

\* a variant of BelowMax for the claims' checks: the statement without its bound on e.id
BelowMaxUnbounded(id, bound) == TRUE

\* WHERE e.id < maxID
BelowMax(id, bound) == id < bound

\* AND e.timestamp >= startTime AND e.timestamp <= endTime, each when its pointer is
\* not nil (a nil pointer is the empty set here)
InTimeRange(t, startTime, endTime) ==
    /\ \A b \in startTime : t >= b
    /\ \A b \in endTime : t <= b

\* LIMIT limit OFFSET skip of the rows
Page(rows, limit, skip) ==
    SubSeq(rows, skip + 1, IF skip + limit < Len(rows) THEN skip + limit ELSE Len(rows))

\* the rows the page query of FilterStream returns on the committed tables
PageQuery(events, raws, args, m, bound, skip) ==
    Page(Ordered({ e \in Joined(events, raws) :
                     /\ BelowMax(e.Id, bound)
                     /\ InTimeRange(e.Timestamp, args.startTime, args.endTime)
                     /\ FtsMatches(m, [raw |-> e.Raw, source |-> e.Source]) }),
         filterStreamPageSize, skip)

(***************************************************************************)
(* FilterEventsStream: the refinement of a page.                           *)
(***************************************************************************)
\* strings.ToLower
ToLower(str) == IF str = "X" THEN "x" ELSE IF str = "Y" THEN "y" ELSE str

\* a pattern of filtering.CompileKeys or CompileMap matches a text: a case-insensitive
\* substring match, which on texts one token long is equality up to case
PatternMatches(pattern, text) == ToLower(pattern) = ToLower(text)

\* parser.ExtractFields(rawLowered, cfg.FieldExtractors) under the extractors of the
\* model: the raw text "x" yields the field level, any other text no field
ExtractFields(rawLowered) ==
    IF rawLowered = "x" THEN [k \in {"level"} |-> "x"] ELSE [k \in {} |-> ""]

\* the fields of evt: those extracted from its lower-cased raw text, with
\* evtFields["source"] = evt.Source
EvtFields(evt) ==
    LET extracted == ExtractFields(ToLower(evt.Raw))
    IN  [k \in DOMAIN extracted \cup {"source"} |->
            IF k = "source" THEN evt.Source ELSE extracted[k]]

\* a variant of FieldsLoop for the claims' checks: a key that is no field of the event
\* is passed over
FieldsLoopBreak(evtFields, fields, keys, i) ==
    \A n \in i..Len(keys) :
        keys[n] \in DOMAIN evtFields =>
            \E value \in fields[keys[n]] : PatternMatches(value, evtFields[keys[n]])

\* the loop over compiledFields from the i-th key of the order keys on: include stays
\* true when every key is a field of the event with a value one of its patterns matches
RECURSIVE FieldsLoop(_, _, _, _)
FieldsLoop(evtFields, fields, keys, i) ==
    IF i > Len(keys) THEN TRUE
    ELSE IF keys[i] \notin DOMAIN evtFields THEN FALSE
    ELSE IF ~\E value \in fields[keys[i]] : PatternMatches(value, evtFields[keys[i]])
    THEN FALSE
    ELSE FieldsLoop(evtFields, fields, keys, i + 1)

\* the loop over compiledNotFields from the i-th key of the order keys on: a key that is
\* no field of the event breaks out of the loop, a value one of its patterns matches sets
\* include to false
RECURSIVE NotFieldsLoop(_, _, _, _)
NotFieldsLoop(evtFields, notFields, keys, i) ==
    IF i > Len(keys) THEN TRUE
    ELSE IF keys[i] \notin DOMAIN evtFields THEN TRUE
    ELSE IF \E value \in notFields[keys[i]] : PatternMatches(value, evtFields[keys[i]])
    THEN FALSE
    ELSE NotFieldsLoop(evtFields, notFields, keys, i + 1)

\* shouldIncludeEvent, its maps Fields and NotFields visited in the orders fieldKeys and
\* notFieldKeys: include is set to false by any of the four loops and never back to true
shouldIncludeEvent(evt, search, fieldKeys, notFieldKeys) ==
    LET rawLowered == ToLower(evt.Raw)
    IN  /\ \A frag \in search.Fragments : PatternMatches(frag, rawLowered)
        /\ \A frag \in search.NotFragments : ~PatternMatches(frag, rawLowered)
        /\ FieldsLoop(EvtFields(evt), search.Fields, fieldKeys, 1)
        /\ NotFieldsLoop(EvtFields(evt), search.NotFields, notFieldKeys, 1)

\* events.EventWithExtractedFields of evt
WithExtractedFields(evt) ==
    [Id |-> evt.Id, Raw |-> evt.Raw, Timestamp |-> evt.Timestamp, Source |-> evt.Source,
     Fields |-> EvtFields(evt)]

\* a variant of RefinedPages for the claims' checks: every event of the page is kept
RefinedPagesAll(page, search) ==
    { [i \in 1..Len(page) |-> WithExtractedFields(page[i])] }

\* the pages retEvts the loop over the events of a received page can build
RECURSIVE RefinedPages(_, _)
RefinedPages(page, search) ==
    IF page = <<>> THEN {<<>>}
    ELSE { (IF include THEN <<WithExtractedFields(Head(page))>> ELSE <<>>) \o rest :
             include \in { shouldIncludeEvent(Head(page), search, fo, nfo) :
                             fo \in Orders(DOMAIN search.Fields),
                             nfo \in Orders(DOMAIN search.NotFields) },
             rest \in RefinedPages(Tail(page), search) }

(***************************************************************************)
(* The searches of the model.                                              *)
(***************************************************************************)
EmptyMap == [k \in {} |-> {}]

\* the arguments FilterStream is called with: every choice of empty and non-empty
\* sources, notSources and fragments, without time bounds and with either one (a nil
\* pointer is the empty set)
StoreArgs ==
    { [Sources |-> ss, NotSources |-> ns, Fragments |-> fr, StartTime |-> tb[1],
       EndTime |-> tb[2]] :
        ss \in {{}, {"a"}}, ns \in {{}, {"b"}}, fr \in {{}, {"x"}},
        tb \in {<<{}, {}>>, <<{2}, {}>>, <<{}, {1}>>} }

\* what a Search adds for the refinement: forbidden fragments, accepted and forbidden
\* field values
Refinements ==
    { [NotFragments |-> {}, Fields |-> EmptyMap, NotFields |-> EmptyMap],
      [NotFragments |-> {"x"}, Fields |-> EmptyMap, NotFields |-> EmptyMap],
      [NotFragments |-> {}, Fields |-> [k \in {"source"} |-> {"a"}], NotFields |-> EmptyMap],
      [NotFragments |-> {}, Fields |-> EmptyMap, NotFields |-> [k \in {"source"} |-> {"a"}]] }

\* type Search
MakeSearch(args, ref) ==
    [Sources |-> args.Sources, NotSources |-> args.NotSources,
     Fragments |-> args.Fragments, StartTime |-> args.StartTime, EndTime |-> args.EndTime,
     NotFragments |-> ref.NotFragments, Fields |-> ref.Fields, NotFields |-> ref.NotFields]

NoRefinement == [NotFragments |-> {}, Fields |-> EmptyMap, NotFields |-> EmptyMap]

\* the searches FilterEventsStream is called with: the arguments above with no
\* refinement of their own, and the search for the fragment "x" with each refinement
Searches ==
    { MakeSearch(args, NoRefinement) : args \in StoreArgs }
    \cup
    { MakeSearch([Sources |-> {}, NotSources |-> {}, Fragments |-> {"x"},
                  StartTime |-> {}, EndTime |-> {}], ref) : ref \in Refinements }

NoSearch ==
    MakeSearch([Sources |-> {}, NotSources |-> {}, Fragments |-> {}, StartTime |-> {},
                EndTime |-> {}], NoRefinement)

(***************************************************************************)
(* The initial state: the tables just created, the flush task of the       *)
(* publisher started with an empty buffer and its timer set, no call made. *)
(***************************************************************************)
\* the goroutines that call PublishEvent
Callers == {"p", "q"}

\* the tag of no call, and the entry of a caller that is sending nothing
NoEntry == [tag |-> 0, evt |-> [raw |-> "", source |-> "", offset |-> 0, timestamp |-> 0]]

NoCall ==
    [returned |-> FALSE, events |-> <<>>, preEvents |-> {}, preRaws |-> {},
     ret |-> <<>>, err |-> FALSE, dups |-> [s \in Sources |-> 0], logged |-> FALSE,
     failed |-> "none"]

\* no call of a function that changes no state was made
NoFnCall == [fn |-> "none"]

Init ==
    /\ Events = {}
    /\ EventRaws = {}
    /\ cleanAdded = FALSE
    /\ call = NoCall
    /\ fnCall = NoFnCall
    /\ mode = "none"
    /\ srch = NoSearch
    /\ fsPc = "idle"
    /\ maxID = 0
    /\ offset = 0
    /\ evts = <<>>
    /\ eventsInPage = 0
    /\ fesPc = "idle"
    /\ retEvts = <<>>
    /\ abandoned = FALSE
    /\ sent = <<>>
    /\ received = <<>>
    /\ snapshot = {}
    /\ readErr = "none"
    /\ pubPc = [c \in Callers |-> "idle"]
    /\ processed = [c \in Callers |-> NoEntry]
    /\ published = 0
    /\ returned = {}
    /\ accumulated = <<>>
    /\ timerFired = FALSE
    /\ flushPc = "select"
    /\ flushed = <<>>

(***************************************************************************)
(* AddBatch, called by a caller that looks at what it returns.             *)
(***************************************************************************)
\* the batch was committed and every event of it was novel
CleanCommit(events, res) ==
    /\ events # <<>>
    /\ ~res.err
    /\ res.failed = "none"
    /\ \A i \in 1..Len(events) : res.ret[i] # 0

\* a caller runs AddBatch(events) and holds what it returned
AddBatchCall ==
    /\ ~call.returned
    /\ \E events \in Batches :
        \E fault \in Faults(events) :
            LET res == AddBatch([Events |-> Events, EventRaws |-> EventRaws], events, fault)
            IN  /\ Cardinality(res.Events) <= MaxStored
                /\ Events' = res.Events
                /\ EventRaws' = res.EventRaws
                /\ cleanAdded' = (cleanAdded \/ CleanCommit(events, res))
                /\ call' = [returned |-> TRUE, events |-> events, preEvents |-> Events,
                            preRaws |-> EventRaws, ret |-> res.ret, err |-> res.err,
                            dups |-> res.dups, logged |-> res.logged,
                            failed |-> res.failed]
    /\ UNCHANGED <<fnCall, streamVars, pubVars>>

\* the caller is done with what AddBatch returned
AddBatchDone ==
    /\ call.returned
    /\ call' = NoCall
    /\ UNCHANGED <<storeVars, fnCall, streamVars, pubVars>>

vars == <<storeVars, call, fnCall, streamVars, pubVars>>

Next == AddBatchCall \/ AddBatchDone

Spec == Init /\ [][Next]_vars

(***************************************************************************)
(* The streams.                                                            *)
(***************************************************************************)
\* the batches of the writer: one event each.  A longer batch commits at once the rows
\* that a run of these commits one by one, so that every table a query of the stream can
\* meet with longer batches it meets with these.
WriterBatches == { b \in Batches : Len(b) = 1 }

\* a writer, the flush task of the publisher, runs AddBatch(events) while the stream is
\* under way or before it, and drops what AddBatch returns.  Writes made after the
\* goroutine of FilterStream has ended are left out: nothing reads the tables then.
WriterAddBatch ==
    /\ fsPc # "closed"
    /\ \E events \in WriterBatches :
        \E fault \in Faults(events) :
            LET res == AddBatch([Events |-> Events, EventRaws |-> EventRaws], events, fault)
            IN  /\ Cardinality(res.Events) <= MaxStored
                /\ Events' = res.Events
                /\ EventRaws' = res.EventRaws
                /\ cleanAdded' = (cleanAdded \/ CleanCommit(events, res))
    /\ UNCHANGED <<call, fnCall, streamVars, pubVars>>

\* repo.FilterStream(sources, notSources, fragments, startTime, endTime) called by
\* itself: the channel is made and the goroutine started
FilterStreamCall ==
    /\ mode = "none"
    /\ \E args \in StoreArgs :
        srch' = MakeSearch(args, NoRefinement)
    /\ mode' = "store"
    /\ fsPc' = "max"
    /\ UNCHANGED <<storeVars, call, fnCall, pubVars, abandoned, fesVars,
                   maxID, offset, evts, eventsInPage, snapshot, readErr, sent>>

\* FilterEventsStream(ctx, repo, srch, cfg): its channel is made and its goroutine
\* started, which calls repo.FilterStream and compiles the patterns of the Search
FilterEventsStreamCall ==
    /\ mode = "none"
    /\ srch' \in Searches
    /\ mode' = "search"
    /\ fsPc' = "max"
    /\ fesPc' = "recv"
    /\ UNCHANGED <<storeVars, call, fnCall, pubVars, abandoned, retEvts, received,
                   maxID, offset, evts, eventsInPage, snapshot, readErr, sent>>

\* FilterStream: SELECT MAX(id) FROM Events.  The query fails, or the table is empty and
\* the scan of NULL into maxID fails (both are logged and end the stream), or maxID is
\* read
SelectMaxID ==
    /\ fsPc = "max"
    /\ \/ /\ fsPc' = "closed"
          /\ readErr' = "max"
          /\ UNCHANGED <<maxID, snapshot>>
       \/ /\ Events = {}
          /\ fsPc' = "closed"
          /\ readErr' = "null"
          /\ UNCHANGED <<maxID, snapshot>>
       \/ /\ Events # {}
          /\ maxID' = SetMax({ e.id : e \in Events })
          /\ snapshot' = { e.id : e \in Events }
          /\ fsPc' = "query"
          /\ UNCHANGED readErr
    /\ offset' = 0
    /\ UNCHANGED <<storeVars, call, fnCall, pubVars, mode, srch, abandoned, fesVars,
                   evts, eventsInPage, sent>>

\* the rows of a page whose Scan fails: none, or one of them
ScanFailures(rows) == {{}} \cup { {i} : i \in 1..Len(rows) }

\* the rows of the page that were scanned, in order
RECURSIVE Scanned(_, _, _)
Scanned(rows, bad, i) ==
    IF i > Len(rows) THEN <<>>
    ELSE (IF i \in bad THEN <<>> ELSE <<rows[i]>>) \o Scanned(rows, bad, i + 1)

\* FilterStream: one page query.  The statement is built and run: it fails (a malformed
\* match expression, or a fault of the database), which is logged and ends the stream, or
\* its rows are scanned into evts, a row whose Scan fails being logged, left out and
\* counted in eventsInPage all the same
QueryPage ==
    /\ fsPc = "query"
    /\ \E srcs \in Orders(srch.Sources) :
        \E nots \in Orders(srch.NotSources) :
            \E frags \in Orders(srch.Fragments) :
                LET m == matchString(srcs, nots, frags)
                    rows == PageQuery(Events, EventRaws,
                                      [startTime |-> srch.StartTime,
                                       endTime |-> srch.EndTime], m, maxID, offset)
                IN  \/ /\ fsPc' = "closed"
                       /\ readErr' = "query"
                       /\ UNCHANGED <<evts, eventsInPage>>
                    \/ /\ ~FtsWellFormed(m)
                       /\ fsPc' = "closed"
                       /\ readErr' = "syntax"
                       /\ UNCHANGED <<evts, eventsInPage>>
                    \/ /\ FtsWellFormed(m)
                       /\ \E bad \in ScanFailures(rows) :
                            /\ evts' = Scanned(rows, bad, 1)
                            /\ readErr' = IF bad = {} THEN readErr ELSE "scan"
                       /\ eventsInPage' = Len(rows)
                       /\ fsPc' = "send"
    /\ UNCHANGED <<storeVars, call, fnCall, pubVars, mode, srch, abandoned, fesVars,
                   maxID, offset, snapshot, sent>>

\* a variant of ShortPage for the claims' checks: a full page ends the stream as well
ShortOrFullPage(n) == n <= filterStreamPageSize

\* eventsInPage < filterStreamPageSize
ShortPage(n) == n < filterStreamPageSize

\* FilterStream after ret <- evts: the goroutine returns, closing the channel, when the
\* page was short, and goes on to the next page otherwise
AfterSend ==
    /\ sent' = Append(sent, evts)
    /\ IF ShortPage(eventsInPage)
       THEN fsPc' = "closed" /\ offset' = offset
       ELSE fsPc' = "query" /\ offset' = offset + filterStreamPageSize
    /\ UNCHANGED <<maxID, evts, eventsInPage, snapshot, readErr>>

\* ret <- evts of FilterStream meets a receive of its caller: the channel has no buffer
SendToCaller ==
    /\ fsPc = "send"
    /\ mode = "store"
    /\ ~abandoned
    /\ AfterSend
    /\ UNCHANGED <<storeVars, call, fnCall, pubVars, mode, srch, abandoned, fesVars>>

\* a variant of MayReceive for the claims' checks: the goroutine takes a page whether or
\* not it still holds one
MayReceiveAnywhere(pc) == pc \in {"recv", "send"}

\* the goroutine of FilterEventsStream receives from inputEvents at the head of its range
\* loop only, which it reaches again after ret <- retEvts
MayReceive(pc) == pc = "recv"

\* ret <- evts of FilterStream meets the range loop of FilterEventsStream, which refines
\* the page into retEvts
SendToSearch ==
    /\ fsPc = "send"
    /\ mode = "search"
    /\ MayReceive(fesPc)
    /\ AfterSend
    /\ retEvts' \in RefinedPages(evts, srch)
    /\ fesPc' = "send"
    /\ UNCHANGED <<storeVars, call, fnCall, pubVars, mode, srch, abandoned, received>>

\* ret <- retEvts of FilterEventsStream meets a receive of its caller
SendRefined ==
    /\ fesPc = "send"
    /\ ~abandoned
    /\ received' = Append(received, retEvts)
    /\ fesPc' = "recv"
    /\ UNCHANGED <<storeVars, call, fnCall, pubVars, mode, srch, abandoned, fsVars, retEvts>>

\* the range loop of FilterEventsStream finds the channel of FilterStream closed: the
\* goroutine returns and closes its own channel
SearchClose ==
    /\ fesPc = "recv"
    /\ fsPc = "closed"
    /\ fesPc' = "closed"
    /\ UNCHANGED <<storeVars, call, fnCall, pubVars, mode, srch, abandoned, fsVars, retEvts,
                   received>>

\* the channel the caller was given is closed
StreamEnded == IF mode = "search" THEN fesPc = "closed" ELSE fsPc = "closed"

\* the caller stops receiving before the stream has ended
Abandon ==
    /\ mode # "none"
    /\ ~StreamEnded
    /\ ~abandoned
    /\ abandoned' = TRUE
    /\ UNCHANGED <<storeVars, call, fnCall, pubVars, mode, srch, fsVars, fesVars>>

\* the steps of the goroutine of FilterStream
FilterStreamStep == SelectMaxID \/ QueryPage \/ SendToCaller \/ SendToSearch

\* the steps of the goroutine of FilterEventsStream
FilterEventsStreamStep == SendToSearch \/ SendRefined \/ SearchClose

StreamNext ==
    \/ WriterAddBatch
    \/ FilterStreamCall
    \/ FilterEventsStreamCall
    \/ SelectMaxID
    \/ QueryPage
    \/ SendToCaller
    \/ SendToSearch
    \/ SendRefined
    \/ SearchClose
    \/ Abandon

StreamSpec == Init /\ [][StreamNext]_vars

\* the Go scheduler runs a goroutine that can take a step
StreamFairSpec ==
    StreamSpec /\ WF_vars(FilterStreamStep) /\ WF_vars(FilterEventsStreamStep)

(***************************************************************************)
(* The batched publisher.                                                  *)
(***************************************************************************)
\* PublishEvent(evt, timeLayout) of caller c up to its send: the event is processed in
\* the caller (its timestamp is the _time field of the raw text parsed with timeLayout,
\* or time.Now() when the field is missing or does not parse) and the caller stands at
\* ep.adder <- processed
\* the events handed to PublishEvent: those read from the file of source "a"
PublishedEvents == { evt \in EventUniverse : evt.source = "a" }

PublishEventCall(c) ==
    /\ pubPc[c] = "idle"
    /\ published < MaxPublish
    /\ \E evt \in PublishedEvents :
        processed' = [processed EXCEPT ![c] = [tag |-> published + 1, evt |-> evt]]
    /\ published' = published + 1
    /\ pubPc' = [pubPc EXCEPT ![c] = "sending"]
    /\ UNCHANGED <<storeVars, call, fnCall, streamVars, returned, accumulated, timerFired, flushPc,
                   flushed>>

PublishEvent == \E c \in Callers : PublishEventCall(c)

\* a variant of SizeReached for the claims' checks: len(accumulated) > 1000
SizeExceeded(n) == n > FlushSize

\* len(accumulated) >= 1000
SizeReached(n) == n >= FlushSize

\* a variant of AtSelect for the claims' checks: the task receives during a flush too
AtSelectOrFlushing(pc) == TRUE

\* the flush task receives from adder and from its timer at its select only
AtSelect(pc) == pc = "select"

\* the flush task, case evt := <-adder: the send of caller c meets the receive (adder
\* has no buffer), PublishEvent returns, the event is appended, and a buffer that has
\* reached the size takes the task to its AddBatch call
ReceiveFrom(c) ==
    /\ AtSelect(flushPc)
    /\ pubPc[c] = "sending"
    /\ accumulated' = Append(accumulated, processed[c])
    /\ flushPc' = IF SizeReached(Len(accumulated) + 1) THEN "size" ELSE "select"
    /\ pubPc' = [pubPc EXCEPT ![c] = "idle"]
    /\ processed' = [processed EXCEPT ![c] = NoEntry]
    /\ returned' = returned \cup {processed[c].tag}
    /\ UNCHANGED <<storeVars, call, fnCall, streamVars, published, timerFired, flushed>>

Receive == \E c \in Callers : ReceiveFrom(c)

\* the timer of time.After(1 * time.Second) expires: its channel holds the tick.  No
\* timer is set while the task is at the AddBatch call of a timer flush.
TimerFire ==
    /\ ~timerFired
    /\ flushPc # "timer"
    /\ timerFired' = TRUE
    /\ UNCHANGED <<storeVars, call, fnCall, streamVars, pubPc, processed, published, returned,
                   accumulated, flushPc, flushed>>

\* a variant of TimeoutFlushes for the claims' checks: the timer flushes a full buffer only
TimeoutFlushesFull(n) == n >= FlushSize

\* len(accumulated) > 0
TimeoutFlushes(n) == n > 0

\* the flush task, case <-timeout: the tick is received; a non-empty buffer takes the task
\* to its AddBatch call, an empty one to a new timer
Timeout ==
    /\ flushPc = "select"
    /\ timerFired
    /\ timerFired' = FALSE
    /\ flushPc' = IF TimeoutFlushes(Len(accumulated)) THEN "timer" ELSE "select"
    /\ UNCHANGED <<storeVars, call, fnCall, streamVars, pubPc, processed, published, returned,
                   accumulated, flushed>>

\* a variant of Truncated for the claims' checks: the buffer is not emptied after a flush
NotTruncated(acc) == acc

\* accumulated = accumulated[:0]
Truncated(acc) == <<>>

\* the events of a buffer, and the tags of their calls
EventsOf(acc) == [i \in 1..Len(acc) |-> acc[i].evt]
TagsOf(acc) == [i \in 1..Len(acc) |-> acc[i].tag]

\* the flush task at repo.AddBatch(accumulated): the batch is added, an error is logged
\* after a size flush and dropped after a timer flush, the buffer is emptied and a new
\* timer set
Flush ==
    /\ flushPc \in {"size", "timer"}
    /\ \E fault \in Faults(EventsOf(accumulated)) :
        LET res == AddBatch([Events |-> Events, EventRaws |-> EventRaws],
                            EventsOf(accumulated), fault)
        IN  /\ Cardinality(res.Events) <= MaxStored
            /\ Events' = res.Events
            /\ EventRaws' = res.EventRaws
            /\ cleanAdded' = (cleanAdded \/ CleanCommit(EventsOf(accumulated), res))
            /\ flushed' = Append(flushed,
                                 [tags |-> TagsOf(accumulated), trigger |-> flushPc,
                                  err |-> res.err,
                                  logged |-> (flushPc = "size" /\ res.err)])
    /\ accumulated' = Truncated(accumulated)
    /\ timerFired' = FALSE
    /\ flushPc' = "select"
    /\ UNCHANGED <<call, fnCall, streamVars, pubPc, processed, published, returned>>

PubNext == PublishEvent \/ Receive \/ TimerFire \/ Timeout \/ Flush

PubSpec == Init /\ [][PubNext]_vars

\* the timer expires, and the select of the flush task, which picks at random among the
\* cases that are ready, takes each case that stays ready
PubFairSpec ==
    PubSpec /\ WF_vars(TimerFire) /\ WF_vars(Timeout) /\ WF_vars(Receive) /\ WF_vars(Flush)

(***************************************************************************)
(* Claims about AddBatch, checked under Spec.                              *)
(***************************************************************************)
\* two events, or rows, with the same (source, timestamp, offset)
SameTriple(a, b) ==
    /\ a.source = b.source
    /\ a.timestamp = b.timestamp
    /\ a.offset = b.offset

\* C1: after any sequence of AddBatch calls, batches with duplicates inside them or of
\* stored events included, no two persisted events share (source, timestamp, offset)
C1_UniqueTriples ==
    \A r1 \in Events : \A r2 \in Events : SameTriple(r1, r2) => r1.id = r2.id

\* an AddBatch call has committed a batch that held a duplicate, and the table holds
\* two rows or more
C1_Witness ==
    /\ call.returned
    /\ call.failed = "none"
    /\ \E s \in Sources : call.dups[s] > 0
    /\ Events # call.preEvents
    /\ Cardinality(Events) >= 2

\* the i-th event of the call is novel: its triple is neither stored before the call nor
\* that of an earlier event of the batch
C2_Novel(i) ==
    /\ \A r \in call.preEvents : ~SameTriple(r, call.events[i])
    /\ \A j \in 1..(i - 1) : ~SameTriple(call.events[j], call.events[i])

\* C2: an AddBatch call in which no database fault takes place does not fail, whatever
\* mix of stored and novel events its batch holds: every novel event is committed (to
\* both tables) under the identity returned at its index, every duplicate gets zero at
\* its index and is counted under its source in the log, the rows stored before stay,
\* and the table grows by exactly the number of novel events
C2_MixedBatch ==
    (call.returned /\ call.failed = "none") =>
        LET n == Len(call.events)
            novel == { i \in 1..n : C2_Novel(i) }
        IN  /\ ~call.err
            /\ Len(call.ret) = n
            /\ \A i \in 1..n \ novel : call.ret[i] = 0
            /\ \A i \in novel :
                /\ call.ret[i] # 0
                /\ [id |-> call.ret[i], source |-> call.events[i].source,
                    timestamp |-> call.events[i].timestamp,
                    offset |-> call.events[i].offset] \in Events \ call.preEvents
                /\ [rowid |-> call.ret[i], raw |-> call.events[i].raw,
                    source |-> call.events[i].source] \in EventRaws \ call.preRaws
            /\ call.preEvents \subseteq Events
            /\ Cardinality(Events) = Cardinality(call.preEvents) + Cardinality(novel)
            /\ call.logged
            /\ \A s \in Sources :
                call.dups[s] =
                    Cardinality({ i \in 1..n \ novel : call.events[i].source = s })

\* a call has returned whose batch held a novel event and a duplicate of a stored one
C2_Witness ==
    /\ call.returned
    /\ call.failed = "none"
    /\ \E i \in 1..Len(call.events) : C2_Novel(i)
    /\ \E i \in 1..Len(call.events) :
        \E r \in call.preEvents : SameTriple(r, call.events[i])

\* C3 as claimed: whenever a fault that is no duplicate takes place in AddBatch (the
\* insert of an event, the read of its identity, the insert of its full-text record or
\* the commit), AddBatch returns an error and the tables are as before the call
C3_FaultReturnsError ==
    (call.returned /\ call.failed # "none") =>
        /\ call.err
        /\ Events = call.preEvents
        /\ EventRaws = call.preRaws

(***************************************************************************)
(* Claims about the streams, checked under StreamSpec.                     *)
(***************************************************************************)
\* the events of a sequence of pages, in the order of their delivery
RECURSIVE Flatten(_)
Flatten(pages) == IF pages = <<>> THEN <<>> ELSE Head(pages) \o Flatten(Tail(pages))

\* the stream of the state was called with no source, fragment or time constraint
Unconstrained ==
    /\ srch.Sources = {} /\ srch.NotSources = {} /\ srch.Fragments = {}
    /\ srch.StartTime = {} /\ srch.EndTime = {}

\* C4 as claimed: after an AddBatch of novel events only has succeeded, a FilterStream
\* with no constraints that has run to its end, without error and with no write since
\* its snapshot, has delivered exactly the events stored, each exactly once
C4_UnconstrainedDeliversAll ==
    (/\ mode = "store" /\ fsPc = "closed" /\ readErr = "none" /\ Unconstrained
     /\ cleanAdded
     /\ snapshot = { e.id : e \in Events })
        => /\ { Flatten(sent)[i] : i \in 1..Len(Flatten(sent)) } = Joined(Events, EventRaws)
           /\ Len(Flatten(sent)) = Cardinality(Events)

\* the row e is one that the statement of the stream selects: its id is below maxID, its
\* timestamp within the bounds and it matches the match expression
C5_Selected(e) ==
    /\ e.Id < maxID
    /\ \A b \in srch.StartTime : e.Timestamp >= b
    /\ \A b \in srch.EndTime : e.Timestamp <= b
    /\ \E srcs \in Orders(srch.Sources) :
        \E nots \in Orders(srch.NotSources) :
            \E frags \in Orders(srch.Fragments) :
                FtsMatches(matchString(srcs, nots, frags),
                           [raw |-> e.Raw, source |-> e.Source])

\* C5: whatever AddBatch calls commit while a FilterStream runs, no page of it holds an
\* event committed after its snapshot of MAX(id), no event is delivered twice, and once
\* the stream has ended without a read error every event that was stored at the
\* snapshot and that its statement selects has been delivered: none was skipped
C5_SnapshotIsolation ==
    LET delivered == Flatten(sent)
    IN  /\ \A i \in 1..Len(delivered) : delivered[i].Id \in snapshot
        /\ \A i \in 1..Len(delivered) : \A j \in 1..Len(delivered) :
            delivered[i].Id = delivered[j].Id => i = j
        /\ (fsPc = "closed" /\ readErr = "none") =>
            \A e \in Joined(Events, EventRaws) :
                (e.Id \in snapshot /\ C5_Selected(e)) =>
                    \E i \in 1..Len(delivered) : delivered[i] = e

\* a stream has ended without error after delivering two events or more in two pages or
\* more, while an event that matches its expression was committed after its snapshot
C5_Witness ==
    /\ fsPc = "closed"
    /\ readErr = "none"
    /\ Len(sent) >= 2
    /\ Len(Flatten(sent)) >= 2
    /\ \E e \in Joined(Events, EventRaws) :
        /\ e.Id \notin snapshot
        /\ \A f \in srch.Fragments : e.Raw = f
        /\ \A b \in srch.StartTime : e.Timestamp >= b
        /\ \A b \in srch.EndTime : e.Timestamp <= b
        /\ srch.Sources = {}

\* the events d are in non-increasing (timestamp, identity) order
C6_NonIncreasing(d) ==
    \A i \in 1..Len(d) : \A j \in 1..Len(d) :
        i < j =>
            \/ d[i].Timestamp > d[j].Timestamp
            \/ d[i].Timestamp = d[j].Timestamp /\ d[i].Id > d[j].Id

\* C6: within one FilterStream or FilterEventsStream call the concatenation of the
\* delivered pages is non-increasing in (timestamp, identity), ties of timestamp broken
\* by strictly decreasing identity, and the refinement keeps the order of the events it
\* was given: two events it delivers were delivered to it in the same order
C6_PagesOrdered ==
    /\ C6_NonIncreasing(Flatten(sent))
    /\ C6_NonIncreasing(Flatten(received))
    /\ LET in == Flatten(sent)
           out == Flatten(received)
       IN  \A i \in 1..Len(out) : \A j \in 1..Len(out) :
            i < j =>
                \E k \in 1..Len(in) : \E l \in 1..Len(in) :
                    /\ k < l
                    /\ in[k].Id = out[i].Id
                    /\ in[l].Id = out[j].Id

\* a FilterEventsStream has ended after delivering, in different pages, two events of
\* one timestamp, with an event of a later timestamp and a smaller identity behind them
C6_Witness ==
    /\ mode = "search"
    /\ fesPc = "closed"
    /\ Len(received) >= 2
    /\ LET out == Flatten(received)
       IN  /\ \E i \in 1..Len(out) : \E j \in 1..Len(out) :
                i < j /\ out[i].Timestamp = out[j].Timestamp
           /\ \E i \in 1..Len(out) : \E j \in 1..Len(out) :
                i < j /\ out[i].Timestamp > out[j].Timestamp /\ out[i].Id > out[j].Id

\* C7 as claimed: once the caller has stopped receiving before the end of the stream,
\* the producers (the goroutine of FilterStream and, for FilterEventsStream, its own)
\* eventually terminate
C7_AbandonedProducerTerminates ==
    abandoned ~> (fsPc = "closed" /\ (mode = "search" => fesPc = "closed"))

(***************************************************************************)
(* Claims about the batched publisher, checked under PubSpec and, for      *)
(* what must eventually happen, under PubFairSpec.                         *)
(***************************************************************************)
\* the number of times the call tagged t stands in the buffer acc
InBuffer(t, acc) == Cardinality({ i \in 1..Len(acc) : acc[i].tag = t })

\* the number of times the call tagged t stands in the first k batches handed to AddBatch
RECURSIVE InBatches(_, _)
InBatches(t, k) ==
    IF k = 0 THEN 0
    ELSE InBatches(t, k - 1)
            + Cardinality({ i \in DOMAIN flushed[k].tags : flushed[k].tags[i] = t })

\* C8: whatever the interleaving of PublishEvent calls, size flushes and timer flushes,
\* an event whose PublishEvent call has returned is either in the accumulation buffer,
\* once, or in exactly one batch handed to AddBatch, once: it is never dropped from the
\* buffer unflushed and never handed over twice
C8_ExactlyOneBatch ==
    \A t \in returned : InBuffer(t, accumulated) + InBatches(t, Len(flushed)) = 1

\* three calls have returned, and both a size flush and a timer flush have taken place
C8_Witness ==
    /\ Cardinality(returned) >= 3
    /\ \E k \in 1..Len(flushed) : flushed[k].trigger = "size"
    /\ \E k \in 1..Len(flushed) : flushed[k].trigger = "timer"

\* the step is the AddBatch call of the flush task, of the whole buffer, for the trigger
\* given, after which the buffer is empty and a new timer is set
FlushesWholeBuffer(trigger) ==
    /\ Len(flushed') = Len(flushed) + 1
    /\ SubSeq(flushed', 1, Len(flushed)) = flushed
    /\ flushed'[Len(flushed')].tags = TagsOf(accumulated)
    /\ flushed'[Len(flushed')].trigger = trigger
    /\ accumulated' = <<>>
    /\ timerFired' = FALSE
    /\ flushPc' = "select"

\* C9: the buffer never holds more than the flush size; when it holds that many the
\* flush task is at its AddBatch call, which it can make whether or not the timer has
\* fired and before which it receives no further event; and its next step is that call,
\* with exactly the events of the buffer, after which the buffer is empty and the timer
\* restarted
C9_SizeFlush ==
    /\ [](Len(accumulated) <= FlushSize)
    /\ [](Len(accumulated) = FlushSize => flushPc = "size")
    /\ [](flushPc = "size" =>
            /\ Len(accumulated) = FlushSize
            /\ ENABLED Flush
            /\ ~ENABLED Receive)
    /\ [][flushPc = "size" =>
            \/ UNCHANGED <<accumulated, flushed, flushPc>>
            \/ FlushesWholeBuffer("size")]_vars

\* a size flush has just been made while a caller stood at its send
C9_Witness ==
    /\ Len(flushed) >= 1
    /\ flushed[Len(flushed)].trigger = "size"
    /\ Len(flushed[Len(flushed)].tags) = FlushSize
    /\ accumulated = <<>>
    /\ flushPc = "select"
    /\ \E c \in Callers : pubPc[c] = "sending"

\* C10: a buffer of fewer events than the flush size is handed to AddBatch only after
\* the timer has fired (every batch shorter than the size is a timer flush, and the task
\* goes to a timer flush only from a select with the tick in the channel and a non-empty
\* buffer); the timer flush hands over the whole buffer, even a single event, and
\* restarts the timer; and, the timer firing again and again, every event accepted is
\* eventually in a batch handed to AddBatch
C10_TimerFlush ==
    /\ [](\A k \in 1..Len(flushed) :
            Len(flushed[k].tags) < FlushSize => flushed[k].trigger = "timer")
    /\ [][(flushPc # "timer" /\ flushPc' = "timer") =>
            (timerFired /\ Len(accumulated) > 0 /\ UNCHANGED <<accumulated, flushed>>)]_vars
    /\ [][flushPc = "timer" =>
            \/ UNCHANGED <<accumulated, flushed, flushPc>>
            \/ FlushesWholeBuffer("timer")]_vars
    /\ \A t \in 1..MaxPublish :
            (t \in returned) ~> (InBatches(t, Len(flushed)) > 0)

\* a timer flush has handed over a single event
C10_Witness ==
    \E k \in 1..Len(flushed) :
        flushed[k].trigger = "timer" /\ Len(flushed[k].tags) = 1

\* C11 as claimed: every AddBatch call of the flush task that returned an error, on the
\* size path or on the timer path, has its error in a log entry (no PublishEvent caller
\* is ever given one: PublishEvent returns no value and has returned before the flush)
C11_FlushFailureLogged ==
    \A k \in 1..Len(flushed) : flushed[k].err => flushed[k].logged

(***************************************************************************)
(* shouldIncludeEvent called on its own, and the claims about it, checked  *)
(* under IncludeSpec.                                                      *)
(***************************************************************************)
\* the events shouldIncludeEvent is called with: those of the model as rows of a page,
\* and one whose raw text is in upper case
IncludeEvents ==
    { [Id |-> 1, Source |-> e.source, Timestamp |-> e.timestamp, Raw |-> e.raw] :
        e \in EventUniverse }
    \cup {[Id |-> 1, Source |-> "a", Timestamp |-> 1, Raw |-> "X"]}

\* Search.Fields and Search.NotFields: a map from a field to its patterns
FieldMaps ==
    { EmptyMap,
      [k \in {"source"} |-> {"a", "c"}],
      [k \in {"source"} |-> {"b"}],
      [k \in {"level"} |-> {"x"}],
      [k \in {"level", "source"} |-> IF k = "level" THEN {"x"} ELSE {"b"}],
      [k \in {"host", "source"} |-> IF k = "host" THEN {"h"} ELSE {"a", "c"}] }

\* the searches shouldIncludeEvent is called with
IncludeSearches ==
    { MakeSearch([Sources |-> {}, NotSources |-> {}, Fragments |-> fr, StartTime |-> {},
                  EndTime |-> {}],
                 [NotFragments |-> nf, Fields |-> fs, NotFields |-> nfs]) :
        fr \in {{}, {"x"}}, nf \in {{}, {"y"}}, fs \in FieldMaps, nfs \in FieldMaps }

\* shouldIncludeEvent(evt, cfg, compiledFrags, compiledNotFrags, compiledFields,
\* compiledNotFields), the range loops over its two maps taking any order
ShouldIncludeEventCall ==
    /\ fnCall = NoFnCall
    /\ \E evt \in IncludeEvents :
        \E search \in IncludeSearches :
            \E fieldKeys \in Orders(DOMAIN search.Fields) :
                \E notFieldKeys \in Orders(DOMAIN search.NotFields) :
                    fnCall' = [fn |-> "shouldIncludeEvent", evt |-> evt, search |-> search,
                               notFieldKeys |-> notFieldKeys,
                               evtFields |-> EvtFields(evt),
                               include |-> shouldIncludeEvent(evt, search, fieldKeys,
                                                              notFieldKeys)]
    /\ UNCHANGED <<storeVars, call, streamVars, pubVars>>

\* the caller is done with what the function returned
FnCallDone ==
    /\ fnCall # NoFnCall
    /\ fnCall' = NoFnCall
    /\ UNCHANGED <<storeVars, call, streamVars, pubVars>>

IncludeNext == ShouldIncludeEventCall \/ FnCallDone

IncludeSpec == Init /\ [][IncludeNext]_vars

\* the event of the call c meets the required constraints of its search: every required
\* fragment matches its lower-cased raw text, no forbidden fragment does, and every
\* constrained field is a field of the event whose value one of its patterns matches
RequiredHold(c) ==
    /\ \A frag \in c.search.Fragments : PatternMatches(frag, ToLower(c.evt.Raw))
    /\ \A frag \in c.search.NotFragments : ~PatternMatches(frag, ToLower(c.evt.Raw))
    /\ \A k \in DOMAIN c.search.Fields :
        /\ k \in DOMAIN c.evtFields
        /\ \E value \in c.search.Fields[k] : PatternMatches(value, c.evtFields[k])

\* the field k of the search of c is forbidden, the event has it and one of its
\* forbidden patterns matches the value
ForbiddenHit(c, k) ==
    /\ k \in DOMAIN c.evtFields
    /\ \E value \in c.search.NotFields[k] : PatternMatches(value, c.evtFields[k])

\* C12: an event is included only if it meets the required constraints (all required
\* fragments match, no forbidden fragment matches, every constrained field exists with
\* a value an accepted pattern matches), and, forbidden fields aside, it is included
\* whenever it meets them
C12_RequiredConstraints ==
    fnCall.fn = "shouldIncludeEvent" =>
        /\ fnCall.include => RequiredHold(fnCall)
        /\ (RequiredHold(fnCall) /\ DOMAIN fnCall.search.NotFields = {}) => fnCall.include

\* an event was included under a required fragment and a field constraint of two
\* accepted patterns, the first of which does not match its value
C12_Witness ==
    /\ fnCall.fn = "shouldIncludeEvent"
    /\ fnCall.include
    /\ fnCall.search.Fragments # {}
    /\ \E k \in DOMAIN fnCall.search.Fields :
        /\ Cardinality(fnCall.search.Fields[k]) = 2
        /\ \E value \in fnCall.search.Fields[k] :
            ~PatternMatches(value, fnCall.evtFields[k])

\* C13 as claimed: the forbidden-field constraints apply each on its own: an event with
\* a forbidden field whose value a forbidden pattern matches is excluded whatever other
\* forbidden fields it lacks, and an event that meets the required constraints and has
\* no such field is included, the forbidden fields it lacks rejecting nothing
C13_ForbiddenFieldsIndependent ==
    fnCall.fn = "shouldIncludeEvent" =>
        /\ (\E k \in DOMAIN fnCall.search.NotFields : ForbiddenHit(fnCall, k))
                => ~fnCall.include
        /\ (/\ RequiredHold(fnCall)
            /\ \A k \in DOMAIN fnCall.search.NotFields : ~ForbiddenHit(fnCall, k))
                => fnCall.include

(***************************************************************************)
(* FilterEventsStream run to its end twice on tables that no one writes,   *)
(* checked under TwiceSpec.                                                *)
(***************************************************************************)
\* the pages FilterStream delivers from OFFSET skip on, to a caller that receives them
\* all, on tables that do not change and with no fault of the database
RECURSIVE StorePages(_, _, _, _, _, _)
StorePages(events, raws, args, m, bound, skip) ==
    LET rows == PageQuery(events, raws, args, m, bound, skip)
    IN  IF Len(rows) < filterStreamPageSize THEN <<rows>>
        ELSE <<rows>> \o StorePages(events, raws, args, m, bound,
                                     skip + filterStreamPageSize)

\* the sequences of pages FilterEventsStream can make of the pages it receives
RECURSIVE RefinedStreams(_, _)
RefinedStreams(pages, search) ==
    IF pages = <<>> THEN {<<>>}
    ELSE { <<retPage>> \o rest :
             retPage \in RefinedPages(Head(pages), search),
             rest \in RefinedStreams(Tail(pages), search) }

\* what a caller that receives every page can get from FilterEventsStream(search) on
\* the tables given: no page when the table is empty (the scan of MAX(id) fails) or the
\* match expression does not parse, the refined pages of the store otherwise, the range
\* loops over the maps of the Search taking any order
FilterEventsStreamRuns(events, raws, search) ==
    IF events = {} THEN {<<>>}
    ELSE UNION
        { IF FtsWellFormed(matchString(srcs, nots, frags))
          THEN RefinedStreams(
                   StorePages(events, raws,
                              [startTime |-> search.StartTime, endTime |-> search.EndTime],
                              matchString(srcs, nots, frags),
                              SetMax({ e.id : e \in events }), 0),
                   search)
          ELSE {<<>>} :
            srcs \in Orders(search.Sources), nots \in Orders(search.NotSources),
            frags \in Orders(search.Fragments) }

\* the searches run twice: those of the streams, the search for two fragments, and the
\* search for the fragment "x" with each pair of forbidden fields
TwiceSearches ==
    Searches
    \cup { MakeSearch([Sources |-> {}, NotSources |-> {}, Fragments |-> {"x", "y"},
                       StartTime |-> {}, EndTime |-> {}], NoRefinement) }
    \cup { MakeSearch([Sources |-> {}, NotSources |-> {}, Fragments |-> {"x"},
                       StartTime |-> {}, EndTime |-> {}],
                      [NotFragments |-> {}, Fields |-> EmptyMap, NotFields |-> nfs]) :
              nfs \in { fm \in FieldMaps : Cardinality(DOMAIN fm) = 2 } }

\* FilterEventsStream is run to its end with one Search twice in a row, no AddBatch
\* running meanwhile
SearchTwice ==
    /\ fnCall = NoFnCall
    /\ \E search \in TwiceSearches :
        \E first \in FilterEventsStreamRuns(Events, EventRaws, search) :
            \E second \in FilterEventsStreamRuns(Events, EventRaws, search) :
                fnCall' = [fn |-> "FilterEventsStream", search |-> search,
                           first |-> first, second |-> second]
    /\ UNCHANGED <<storeVars, call, streamVars, pubVars>>

TwiceNext == WriterAddBatch \/ SearchTwice \/ FnCallDone

TwiceSpec == Init /\ [][TwiceNext]_vars

\* C14 as claimed: FilterEventsStream run twice with one Search on unchanged tables
\* delivers the same pages with the same events in the same order, whatever the
\* iteration order of the maps of the Search
C14_SameOutputTwice ==
    fnCall.fn = "FilterEventsStream" => fnCall.first = fnCall.second

C16_OnePageAhead ==
    /\ [](fsPc \in {"query", "send"} => offset = Len(sent) * filterStreamPageSize)
    /\ [][fsPc = "send" =>
            /\ <<evts, eventsInPage, maxID>>' = <<evts, eventsInPage, maxID>>
            /\ \/ fsPc' = "send" /\ offset' = offset /\ sent' = sent
               \/ sent' = Append(sent, evts)]_vars
    /\ [](mode = "search" =>
            Len(sent) = Len(received) + (IF fesPc = "send" THEN 1 ELSE 0))
    /\ [][fesPc = "send" =>
            /\ sent' = sent
            /\ retEvts' = retEvts
            /\ \/ fesPc' = "send" /\ received' = received
               \/ received' = Append(received, retEvts)]_vars

\* the caller has stopped receiving, and each of the two producers holds one page: the
\* goroutine of FilterEventsStream a refined one, that of FilterStream the next one
C16_Witness ==
    /\ abandoned
    /\ mode = "search"
    /\ fesPc = "send"
    /\ fsPc = "send"
    /\ Len(sent) >= 1
    /\ evts # <<>>

\* the events of page at the places keep, from the i-th on, in their order, as
\* events.EventWithExtractedFields
RECURSIVE KeptOf(_, _, _)
KeptOf(page, keep, i) ==
    IF i > Len(page) THEN <<>>
    ELSE (IF i \in keep THEN <<WithExtractedFields(page[i])>> ELSE <<>>)
            \o KeptOf(page, keep, i + 1)

\* shouldIncludeEvent can return the value include for evt under the search of the stream
CanReturn(evt, include) ==
    \E fieldKeys \in Orders(DOMAIN srch.Fields) :
        \E notFieldKeys \in Orders(DOMAIN srch.NotFields) :
            shouldIncludeEvent(evt, srch, fieldKeys, notFieldKeys) = include

\* out holds exactly the events of the page in that passed refinement, in their order
PassingOf(in, out) ==
    \E keep \in SUBSET (1..Len(in)) :
        /\ out = KeptOf(in, keep, 1)
        /\ \A i \in 1..Len(in) : CanReturn(in[i], i \in keep)

\* C18: FilterEventsStream emits one output page for every page it receives, in the
\* same order, an empty one when no event passes: the pages its caller has received
\* pair off with the pages it has received from FilterStream, the page it holds being
\* the one for the last page received; each output page holds exactly the passing
\* events of its input page in their order; it closes its channel only after the input
\* stream was closed and every page emitted, and, its caller receiving, it does close
\* it once the input stream is closed
C18_PageForPage ==
    /\ [](mode = "search" =>
            /\ Len(sent) = Len(received) + (IF fesPc = "send" THEN 1 ELSE 0)
            /\ \A k \in 1..Len(received) : PassingOf(sent[k], received[k])
            /\ fesPc = "send" => PassingOf(sent[Len(sent)], retEvts)
            /\ fesPc = "closed" => (fsPc = "closed" /\ Len(received) = Len(sent)))
    /\ [][Len(received') > Len(received) => received' = Append(received, retEvts)]_vars
    /\ (mode = "search" /\ fsPc = "closed") ~> (fesPc = "closed" \/ abandoned)

\* a FilterEventsStream has ended after emitting an empty page for a page of events none
\* of which passed, and a page that holds an event for a page that held it
C18_Witness ==
    /\ mode = "search"
    /\ fesPc = "closed"
    /\ \E k \in 1..Len(received) : sent[k] # <<>> /\ received[k] = <<>>
    /\ \E k \in 1..Len(received) : received[k] # <<>>

(***************************************************************************)
(* Claims about a flush in progress, checked under PubSpec.                *)
(***************************************************************************)
\* the flush task is inside a call of AddBatch
Flushing == flushPc \in {"size", "timer"}

\* C17: the flush task makes one AddBatch call at a time (a batch is handed over only by
\* the step that ends the flush in progress, one batch a step), and while the call is in
\* progress no event is received: a PublishEvent call that stands at its send has its
\* event in no batch and not in the buffer, the flush leaves it standing there, and it
\* returns only when the task is back at its select, its event appended to the buffer
\* that was emptied after the flush
C17_OneFlushInFlight ==
    /\ [][flushed' # flushed =>
            /\ Flushing /\ ~Flushing'
            /\ Len(flushed') = Len(flushed) + 1
            /\ SubSeq(flushed', 1, Len(flushed)) = flushed]_vars
    /\ [][Flushing =>
            /\ returned' = returned
            /\ \A c \in Callers : pubPc[c] = "sending" =>
                    (pubPc'[c] = "sending" /\ processed'[c] = processed[c])
            /\ accumulated' = accumulated \/ (accumulated' = <<>> /\ flushed' # flushed)]_vars
    /\ [](\A c \in Callers : pubPc[c] = "sending" =>
            /\ InBuffer(processed[c].tag, accumulated) = 0
            /\ InBatches(processed[c].tag, Len(flushed)) = 0)
    /\ [][\A c \in Callers : (pubPc[c] = "sending" /\ pubPc'[c] # "sending") =>
            /\ ~Flushing
            /\ accumulated' = Append(accumulated, processed[c])
            /\ flushed' = flushed]_vars

\* a timer flush has just been made while a caller stood at its send, where it still
\* stands, the buffer empty
C17_Witness ==
    /\ Len(flushed) >= 1
    /\ flushed[Len(flushed)].trigger = "timer"
    /\ accumulated = <<>>
    /\ flushPc = "select"
    /\ \E c \in Callers : pubPc[c] = "sending"

(***************************************************************************)
(* The match expression built on its own, checked under MatchSpec.         *)
(***************************************************************************)
\* the keys of the maps FilterStream is called with, in the order its range loops
\* visit them: every list without repetition of at most two words
KeyOrders(words) == UNION { Orders(S) : S \in SUBSET words }

\* FilterStream builds matchString from its three maps
MatchStringCall ==
    /\ fnCall = NoFnCall
    /\ \E srcs \in KeyOrders(Sources) :
        \E nots \in KeyOrders(Sources) :
            \E frags \in KeyOrders(Raws) :
                fnCall' = [fn |-> "matchString", sources |-> srcs, notSources |-> nots,
                           fragments |-> frags,
                           matchString |-> matchString(srcs, nots, frags)]
    /\ UNCHANGED <<storeVars, call, streamVars, pubVars>>

MatchNext == MatchStringCall \/ FnCallDone

MatchSpec == Init /\ [][MatchNext]_vars

\* C19 as claimed: for every combination of empty and non-empty sources, notSources and
\* fragments the match expression has balanced parentheses, and every AND of it has an
\* operand on both sides
C19_MatchStringWellFormed ==
    fnCall.fn = "matchString" =>
        LET m == fnCall.matchString
        IN  /\ \A n \in 1..Len(m) : Depth(m, n) >= 0
            /\ Depth(m, Len(m)) = 0
            /\ \A n \in 1..Len(m) :
                m[n] = OpAnd =>
                    /\ n > 1 /\ (IsTerm(m[n - 1]) \/ m[n - 1] = RParen)
                    /\ n < Len(m) /\ (IsTerm(m[n + 1]) \/ m[n + 1] = LParen)

(***************************************************************************)
(* GetByIds, checked under GetSpec.                                        *)
(***************************************************************************)
\* the zero value of EventWithId
ZeroEvent == [Id |-> 0, Source |-> "", Timestamp |-> 0, Raw |-> ""]

\* the rows of S by ascending id, the order in which the statement of GetByIds, which
\* has no ORDER BY, reads them off the primary key
RECURSIVE ById(_)
ById(S) ==
    IF S = {} THEN <<>>
    ELSE LET first == CHOOSE a \in S : \A b \in S : a.Id <= b.Id
         IN  <<first>> \o ById(S \ {first})

\* GetByIds(ids): the query fails or a scan fails, and nil and an error are returned;
\* or ret, made with len(ids) zero values, gets the rows WHERE e.id IN (ids) from its
\* first place on and is returned whole
GetByIds(events, raws, ids, fault) ==
    LET rows == ById({ e \in Joined(events, raws) : \E i \in 1..Len(ids) : ids[i] = e.Id })
    IN  IF fault THEN [ret |-> <<>>, err |-> TRUE]
        ELSE [ret |-> [i \in 1..Len(ids) |-> IF i <= Len(rows) THEN rows[i] ELSE ZeroEvent],
              err |-> FALSE]

\* a caller runs GetByIds(ids) and holds what it returned
GetByIdsCall ==
    /\ fnCall = NoFnCall
    /\ \E ids \in SeqsUpTo(1..MaxStored, MaxIds) :
        \E fault \in BOOLEAN :
            fnCall' = [fn |-> "GetByIds", ids |-> ids,
                       res |-> GetByIds(Events, EventRaws, ids, fault)]
    /\ UNCHANGED <<storeVars, call, streamVars, pubVars>>

GetNext == WriterAddBatch \/ GetByIdsCall \/ FnCallDone

GetSpec == Init /\ [][GetNext]_vars

\* C20 as claimed: GetByIds returns one entry for each distinct requested identity that
\* is in the store, and no other entry: none, and no zero value, for an identity that
\* is not stored or is requested twice
C20_OneEntryPerStoredId ==
    (fnCall.fn = "GetByIds" /\ ~fnCall.res.err) =>
        LET ret == fnCall.res.ret
            wanted == { e \in Joined(Events, EventRaws) :
                          \E i \in 1..Len(fnCall.ids) : fnCall.ids[i] = e.Id }
        IN  /\ Len(ret) = Cardinality(wanted)
            /\ \A e \in wanted : Cardinality({ i \in 1..Len(ret) : ret[i] = e }) = 1
            /\ \A i \in 1..Len(ret) : ret[i] # ZeroEvent

====
